---------------------------- MODULE Spec2Model ----------------------------
(***************************************************************************)
(* Job Copilot: the indexing pipeline (enrichItem, enrichAndEmbedCorpus)   *)
(* and the retrieval call (extractRequirementsFromJD, getRagContext) of    *)
(* services/geminiService, as state machines.                              *)
(*                                                                         *)
(* Representation of JavaScript values:                                    *)
(*   number      a one-element tuple <<v>>, v in units of 1/SCALE; NaN is  *)
(*               the empty tuple.  Floating-point rounding is not modelled.*)
(*   string      a sequence of runs [ch, n] (n > 0 copies of character ch) *)
(*               for the JD, an opaque tagged tuple for every other text;  *)
(*               <<>> is the empty string, Undefined the value undefined.  *)
(*   embedding?  [set |-> FALSE, values |-> <<>>] when the field is unset. *)
(***************************************************************************)
EXTENDS Integers, Sequences, FiniteSets, TLC

VARIABLES
    \* ---- getRagContext ----
    rpc,            \* position of the getRagContext call
    jdText,         \* its argument jdText
    vectorStore,    \* its argument vectorStore
    options,        \* its argument options, defaults applied
    finalIds,       \* the Set finalIds
    fixedIds,       \* finalIds as it was after step 1 (fixed inclusion)
    requirements,   \* the local requirements
    reqEmbeddings,  \* the local reqEmbeddings
    chunkScores,    \* the Map chunkScores, entries in insertion order
    sortedIds,      \* the local sortedIds
    contextBlocks,  \* the local contextBlocks (joined on return)
    ragResponse,    \* the service response the call consumed last
    ragRaised,      \* TRUE when the call rejected (an exception escaped)
    \* ---- enrichAndEmbedCorpus ----
    ipc,            \* position of the enrichAndEmbedCorpus call
    corpus,         \* its argument corpus
    enrichedItems,  \* the local enrichedItems
    loopI,          \* the loop variable i of the running loop
    calls,          \* the enrichItem promises of the running batch
    embedLog,       \* the embedding responses received, one per batch sent
    progress,       \* the onProgress calls made: <<current, total>>
    indexResult,    \* the value the call resolved with
    indexRaised,    \* TRUE when the call rejected
    faults,         \* service calls and id draws that went wrong, so far
    \* generateRichCorpus
    gpc,            \* "idle", "done" or "rejected"
    resumeJson,     \* the structured document
    corpusChunks,   \* the chunks the call returned
    corpusRaised,   \* TRUE when the call threw
    \* two getRagContext calls on the same input against deterministic services
    callNo,         \* 0 before the first call, then 1, then 2
    stub,           \* what the services answered in the first call
    firstCall,      \* the outcome of the first call
    \* the App component: its state, its refs, and the handlers in flight
    mode,               \* "UPLOAD" or "DASHBOARD"
    parsedResume,       \* 0 for null, or the number of the upload it came from
    tokenUsage,         \* the session token counter
    appVectorStore,     \* the state vectorStore: the upload it indexes, its size
    isIndexing, isLoading, isChatLoading,
    jobDescription,     \* TRUE when the JD text is not empty
    activeTab,
    copilotRef,         \* copilotRef.current: 0 for null, or the session that set it
    chatHistory,
    tailoredResumeData, \* 0 for null, or the session that produced it
    error,              \* "null" or the message
    uploadTasks,        \* handleFileUpload invocations, in order
    indexRuns,          \* the buildKnowledgeBase run of each upload
    sessions,           \* initCopilotSession invocations that passed the guards
    sends,              \* handleSendMessage invocations that passed the guards
    epoch,              \* the number of tab changes so far
    retrievals,         \* what every getRagContext call was started with
    startedAtCeiling    \* generation calls started with the counter at the ceiling

ragVars == <<rpc, jdText, vectorStore, options, finalIds, fixedIds, requirements,
             reqEmbeddings, chunkScores, sortedIds, contextBlocks, ragResponse,
             ragRaised>>

indexVars == <<ipc, corpus, enrichedItems, loopI, calls, embedLog, progress,
               indexResult, indexRaised, faults>>

corpusVars == <<gpc, resumeJson, corpusChunks, corpusRaised>>

twiceVars == <<callNo, stub, firstCall>>

appVars == <<mode, parsedResume, tokenUsage, appVectorStore, isIndexing, isLoading,
             isChatLoading, jobDescription, activeTab, copilotRef, chatHistory,
             tailoredResumeData, error, uploadTasks, indexRuns, sessions, sends,
             epoch, retrievals, startedAtCeiling>>

vars == <<ragVars, indexVars, corpusVars, twiceVars, appVars>>

-----------------------------------------------------------------------------
\* Bounds of the model.

MaxStore == 2       \* longest vector store passed to getRagContext
MaxReq == 2         \* longest requirement list the generation service returns
MaxMatch == 2       \* largest reqMatchCount
MaxLimit == 1       \* largest finalContextLimit
MaxCorpus == 21     \* longest corpus passed to enrichAndEmbedCorpus
MaxFaults == 1      \* service calls per run that do not answer as asked, id
                    \* draws that repeat an earlier id included
MaxBullets == 2     \* longest list nested in an entry of the document
MaxUploads == 2     \* resume uploads per App session
MaxBatches == 2     \* enrichment batches of one indexing run of the App
MaxSessions == 2    \* initCopilotSession invocations that pass the guards
MaxSends == 1       \* chat messages sent
MaxTabChanges == 1  \* tab changes

\* Program constants.

SCALE == 25             \* similarities are kept in units of 1/25
JD_FALLBACK_CHARS == 1000
BATCH_SIZE == 5
EMBED_BATCH_SIZE == 20
MAX_SESSION_TOKENS == 200000

-----------------------------------------------------------------------------
\* JavaScript numbers.

NaN == <<>>
Num(v) == <<v>>
IsNaN(x) == x = NaN

\* x + y
JsAdd(x, y) == IF IsNaN(x) \/ IsNaN(y) THEN NaN ELSE Num(x[1] + y[1])

\* x || 0 for a number or undefined x (absent Map entry): 0 and NaN are falsy
OrZero(present, x) == IF ~present \/ IsNaN(x) THEN Num(0) ELSE x

Min(a, b) == IF a < b THEN a ELSE b

RECURSIVE SumTo(_, _)
\* the sum of f[1..n]
SumTo(f, n) == IF n = 0 THEN 0 ELSE f[n] + SumTo(f, n - 1)

\* Math.sqrt on the perfect squares the bounded vectors produce
ISqrt(n) == CHOOSE r \in 0..n : r * r = n

\* cosineSimilarity(vecA, vecB): the loop runs over vecA's indices; reading
\* vecB past its end gives undefined, which makes every accumulator NaN; a
\* zero norm gives 0/0 = NaN.
cosineSimilarity(vecA, vecB) ==
    LET n == Len(vecA)
        dot == SumTo([i \in 1..n |-> vecA[i] * vecB[i]], n)
        normA == SumTo([i \in 1..n |-> vecA[i] * vecA[i]], n)
        normB == SumTo([i \in 1..n |-> vecB[i] * vecB[i]], n)
    IN  IF n > Len(vecB) THEN NaN
        ELSE IF normA = 0 \/ normB = 0 THEN NaN
        ELSE Num((SCALE * dot) \div (ISqrt(normA) * ISqrt(normB)))

-----------------------------------------------------------------------------
\* Array.prototype.sort((a, b) => b.score - a.score) on a sequence of records
\* with a field score.  The sort is stable.  A comparator result of NaN counts
\* as 0; when that makes the comparator inconsistent (a NaN beside two
\* different numbers) the order is implementation-defined: any permutation.

\* a must come before b
Before(a, b) == ~IsNaN(a.score) /\ ~IsNaN(b.score) /\ a.score[1] > b.score[1]

ConsistentCompare(s) ==
    \/ \A i \in 1..Len(s) : ~IsNaN(s[i].score)
    \/ \A i, j \in 1..Len(s) :
          (~IsNaN(s[i].score) /\ ~IsNaN(s[j].score)) => s[i].score = s[j].score

\* insert x behind every element that is not strictly smaller
RECURSIVE InsertDesc(_, _)
InsertDesc(s, x) ==
    IF s = <<>> THEN <<x>>
    ELSE IF Before(x, s[1]) THEN <<x>> \o s
    ELSE <<s[1]>> \o InsertDesc(Tail(s), x)

RECURSIVE StableSortDesc(_)
StableSortDesc(s) ==
    IF s = <<>> THEN <<>>
    ELSE InsertDesc(StableSortDesc(SubSeq(s, 1, Len(s) - 1)), s[Len(s)])

Reorderings(s) ==
    { [i \in 1..Len(s) |-> s[p[i]]] :
        p \in { q \in [1..Len(s) -> 1..Len(s)] :
                  \A i, j \in 1..Len(s) : i # j => q[i] # q[j] } }

SortOutcomes(s) ==
    IF ConsistentCompare(s) THEN {StableSortDesc(s)} ELSE Reorderings(s)

-----------------------------------------------------------------------------
\* Strings as runs of characters.

\* s.substring(0, n)
RECURSIVE Substring0(_, _)
Substring0(s, n) ==
    IF s = <<>> \/ n = 0 THEN <<>>
    ELSE IF s[1].n <= n THEN <<s[1]>> \o Substring0(Tail(s), n - s[1].n)
    ELSE <<[ch |-> s[1].ch, n |-> n]>>

RECURSIVE StrLen(_)
StrLen(s) == IF s = <<>> THEN 0 ELSE s[1].n + StrLen(Tail(s))

\* the JDs of the model: "ab", and 1000 a's followed by one b
JdTexts ==
    { <<[ch |-> "a", n |-> 1], [ch |-> "b", n |-> 1]>>,
      <<[ch |-> "a", n |-> JD_FALLBACK_CHARS], [ch |-> "b", n |-> 1]>> }

\* the k-th requirement string the generation service may return
ReqString(k) == <<[ch |-> "r", n |-> k]>>

-----------------------------------------------------------------------------
\* EnrichedCorpusItem, enrichItem, and the vector stores of the model.

NoEmbedding == [set |-> FALSE, values |-> <<>>]
Embedding(v) == [set |-> TRUE, values |-> v]

\* a category label that is undefined
UndefinedLabel == "<undefined>"

Undefined == <<"undefined">>

\* the corpus of n chunks: the education chunk and the summary chunk come
\* last, as generateRichCorpus emits them after the work and project chunks
ChunkType(k, n) ==
    IF k = n THEN "summary"
    ELSE IF k = n - 1 THEN "education" ELSE "work_experience"

Corpus(n) ==
    [k \in 1..n |-> [text |-> <<"chunk", k>>, metadata |-> [type |-> ChunkType(k, n)]]]

CorpusLengths == {0, 1, BATCH_SIZE + 1, MaxCorpus}

\* ai.models.generateContent for enrichItem: the call rejects ("error"), or
\* resolves with text missing, empty, unparseable, or text that parses to
\* null, to an object without the four fields, to the four fields with an
\* empty fused_sentence, or to the four fields as asked ("ok").
EnrichFailureKinds ==
    {"error", "notext", "emptytext", "unparseable", "null", "nofields", "emptyfused"}
EnrichResponseKinds == {"ok"} \cup EnrichFailureKinds

\* Math.random().toString(36).substring(7) for the k-th chunk: a string of
\* its own, or the string an earlier call drew
IdDraws(k) == {k} \cup (IF k > 1 THEN {1} ELSE {})

\* the keywords and implied skills of an answer as asked: nine tags in all
KeywordsAsked == [i \in 1..5 |-> <<"kw", i>>]
SkillsAsked == [i \in 1..4 |-> <<"skill", i>>]

NullResult == [isNull |-> TRUE, item |-> <<>>]
ItemResult(item) == [isNull |-> FALSE, item |-> item]

\* the object of the catch block
FallbackItem(chunk, id) ==
    [id |-> id, content |-> chunk.text, keywords |-> <<>>, skills_implied |-> <<>>,
     category |-> "unknown", raw_source |-> chunk.text, metadata |-> chunk.metadata,
     embedding |-> NoEmbedding]

\* enrichItem(item, onTokenUsage) for the k-th chunk, given the response of
\* the generation service and the random id: the value the promise resolves
\* with (the function has no path that rejects)
enrichItem(chunk, k, kind, id) ==
    CASE kind \in {"notext", "emptytext"} -> NullResult
      [] kind \in {"error", "unparseable", "null"} -> ItemResult(FallbackItem(chunk, id))
      [] kind = "nofields" ->
            ItemResult([id |-> id, content |-> Undefined, keywords |-> <<>>,
                        skills_implied |-> <<>>, category |-> UndefinedLabel,
                        raw_source |-> chunk.text, metadata |-> chunk.metadata,
                        embedding |-> NoEmbedding])
      [] kind = "emptyfused" ->
            ItemResult([id |-> id, content |-> <<>>, keywords |-> KeywordsAsked,
                        skills_implied |-> SkillsAsked, category |-> "experience",
                        raw_source |-> chunk.text, metadata |-> chunk.metadata,
                        embedding |-> NoEmbedding])
      [] OTHER ->
            ItemResult([id |-> id, content |-> <<"fused", k>>, keywords |-> KeywordsAsked,
                        skills_implied |-> SkillsAsked, category |-> "experience",
                        raw_source |-> chunk.text, metadata |-> chunk.metadata,
                        embedding |-> NoEmbedding])

ItemTypes == {"summary", "education", "work_experience"}
StoreVectors == {<<1, 0>>, <<3, 4>>}
ReqVectors == {<<1, 0>>, <<0, 1>>}

\* the item at store position k: what enrichItem built for a chunk of the
\* given type, enriched as asked at odd positions and the fallback item at
\* even positions, with the embedding attached
StoreItem(k, id, type, emb) ==
    LET chunk == [text |-> <<"chunk", k>>, metadata |-> [type |-> type]]
        built == enrichItem(chunk, k, IF k % 2 = 1 THEN "ok" ELSE "error", id).item
    IN  [built EXCEPT !.embedding = emb]

\* ids are opaque: position k holds its own id k or repeats an earlier one
IdAssignments(n) ==
    { f \in [1..n -> 1..n] :
        \A k \in 1..n : f[k] = k \/ (f[k] < k /\ f[f[k]] = f[k]) }

VectorStores ==
    UNION { { [k \in 1..n |-> StoreItem(k, ids[k], ty[k], em[k])] :
                ids \in IdAssignments(n),
                ty \in [1..n -> ItemTypes],
                em \in [1..n -> {NoEmbedding} \cup {Embedding(v) : v \in StoreVectors}] }
            : n \in 0..MaxStore }

OptionSets ==
    [includeSummary : BOOLEAN, includeEducation : BOOLEAN,
     requirementCount : 1..MaxReq, reqMatchCount : 1..MaxMatch,
     finalContextLimit : 0..MaxLimit]

-----------------------------------------------------------------------------
\* Service responses.

\* ai.models.generateContent for extractRequirementsFromJD: the call rejects,
\* or resolves with text missing, text empty, text that JSON.parse rejects, or
\* text that parses to null, to an object, or to an array of strings.
JsonArray(items) == [t |-> "array", items |-> items]
JsonNull == [t |-> "null", items |-> <<>>]
JsonObject == [t |-> "object", items |-> <<>>]

GenResponses ==
    { [kind |-> k, parsed |-> JsonNull] :
        k \in {"error", "notext", "emptytext", "unparseable"} }
    \cup { [kind |-> "json", parsed |-> v] :
             v \in {JsonNull, JsonObject}
                   \cup { JsonArray([i \in 1..n |-> ReqString(i)]) : n \in 0..MaxReq } }

\* ai.models.embedContent on n inputs: the call rejects, or resolves without
\* an embeddings field, or with one entry per input, each with or without values.
EmbedEntries(vectors) ==
    {[hasValues |-> FALSE, values |-> <<>>]}
    \cup { [hasValues |-> TRUE, values |-> v] : v \in vectors }

EmbedResponses(n, vectors) ==
    { [kind |-> k, embeddings |-> <<>>] : k \in {"error", "noembeddings"} }
    \cup { [kind |-> "ok", embeddings |-> e] : e \in [1..n -> EmbedEntries(vectors)] }

-----------------------------------------------------------------------------
\* extractRequirementsFromJD: the value the promise resolves with.  Every
\* failure inside the try block yields []; parsed text is returned as it is.
extractRequirementsFromJD(resp) ==
    IF resp.kind = "json" THEN resp.parsed ELSE JsonArray(<<>>)

\* requirements.length: reading a property of null throws a TypeError
LengthThrows(v) == v.t = "null"
\* LengthIsZero with the test lost: the fallback to the JD is never taken
LengthIsZero_Never(v) == FALSE

\* requirements.length === 0
LengthIsZero(v) == v.t = "array" /\ v.items = <<>>

\* the strings sent to the embedding service
ContentsOf(v) == IF v.t = "array" THEN v.items ELSE <<v.t>>

-----------------------------------------------------------------------------
\* FixedInclusion with the education branch lost
FixedInclusion_SummaryOnly(store, opts) ==
    { store[k].id : k \in { j \in 1..Len(store) :
        opts.includeSummary /\ store[j].metadata.type = "summary" } }

\* getRagContext, step 1: the ids of the fixed context.
FixedInclusion(store, opts) ==
    { store[k].id : k \in { j \in 1..Len(store) :
        \/ opts.includeSummary /\ store[j].metadata.type = "summary"
        \/ opts.includeEducation /\ store[j].metadata.type = "education" } }

\* step 3: reqEmbeddings = resp.embeddings.map(e => e.values || [])
ReqEmbeddingsOf(resp) ==
    IF resp.kind = "ok"
    THEN [j \in 1..Len(resp.embeddings) |->
            IF resp.embeddings[j].hasValues THEN resp.embeddings[j].values ELSE <<>>]
    ELSE <<>>

\* the scores of one requirement vector against the store, in store order
ScoresOf(reqVec, store) ==
    [k \in 1..Len(store) |->
        [id |-> store[k].id,
         score |-> IF store[k].embedding.set
                   THEN cosineSimilarity(reqVec, store[k].embedding.values)
                   ELSE Num(0 - SCALE)]]

\* Map.has / Map.get / Map.set on a sequence of entries [id, score]
MapHas(m, id) == \E k \in 1..Len(m) : m[k].id = id
MapGet(m, id) == m[CHOOSE k \in 1..Len(m) : m[k].id = id].score
MapSet(m, id, v) ==
    IF MapHas(m, id)
    THEN [k \in 1..Len(m) |-> IF m[k].id = id THEN [id |-> id, score |-> v] ELSE m[k]]
    ELSE Append(m, [id |-> id, score |-> v])

\* hits.forEach(hit => chunkScores.set(hit.id, (chunkScores.get(hit.id) || 0) + hit.score))
RECURSIVE AddHits(_, _)
AddHits(m, hits) ==
    IF hits = <<>> THEN m
    ELSE LET hit == hits[1]
             current == OrZero(MapHas(m, hit.id),
                               IF MapHas(m, hit.id) THEN MapGet(m, hit.id) ELSE NaN)
         IN  AddHits(MapSet(m, hit.id, JsAdd(current, hit.score)), Tail(hits))

\* scores.slice(0, reqMatchCount)
Slice0(s, n) == SubSeq(s, 1, Min(n, Len(s)))

\* reqEmbeddings.forEach(...): the chunkScores maps the loop can end with
RECURSIVE ScoreOutcomes(_, _, _, _)
ScoreOutcomes(reqVecs, store, reqMatchCount, m) ==
    IF reqVecs = <<>> THEN {m}
    ELSE UNION { ScoreOutcomes(Tail(reqVecs), store, reqMatchCount,
                               AddHits(m, Slice0(sorted, reqMatchCount))) :
                 sorted \in SortOutcomes(ScoresOf(reqVecs[1], store)) }

\* for (const uid of sortedIds) { if (finalIds.size >= cap) break; finalIds.add(uid) }
RECURSIVE SelectIds(_, _, _)
SelectIds(final, ids, cap) ==
    IF ids = <<>> \/ Cardinality(final) >= cap THEN final
    ELSE SelectIds(final \cup {ids[1]}, Tail(ids), cap)

\* String.prototype.toUpperCase on the category labels of the model
ToUpperCase(c) ==
    CASE c = "experience" -> "EXPERIENCE"
      [] c = "unknown" -> "UNKNOWN"
      [] c = "General" -> "GENERAL"
      [] OTHER -> c

\* one rendered block: `[${category}] ${doc.content}\n(Tags: ${metaTags})`
RenderBlock(doc) ==
    [category |-> ToUpperCase(IF doc.category \in {"", UndefinedLabel}
                              THEN "General" ELSE doc.category),
     content |-> doc.content,
     tags |-> Slice0(doc.keywords \o doc.skills_implied, 8)]

\* RenderContext walking the store from its end
RECURSIVE RenderContext_Reversed(_, _)
RenderContext_Reversed(store, final) ==
    IF store = <<>> THEN <<>>
    ELSE RenderContext_Reversed(Tail(store), final)
         \o (IF store[1].id \in final THEN <<RenderBlock(store[1])>> ELSE <<>>)

\* step 7: one block per store item whose id is in the final set, store order
RECURSIVE RenderContext(_, _)
RenderContext(store, final) ==
    IF store = <<>> THEN <<>>
    ELSE (IF store[1].id \in final THEN <<RenderBlock(store[1])>> ELSE <<>>)
         \o RenderContext(Tail(store), final)

-----------------------------------------------------------------------------
\* The getRagContext call as a process: it runs to its first await (the
\* requirement extraction), then to its second (the embedding of the
\* requirements), then to its return.

RagIdle ==
    /\ rpc = "idle" /\ jdText = <<>> /\ vectorStore = <<>>
    /\ options = [includeSummary |-> TRUE, includeEducation |-> TRUE,
                  requirementCount |-> 1, reqMatchCount |-> 1, finalContextLimit |-> 0]
    /\ finalIds = {} /\ fixedIds = {} /\ requirements = JsonArray(<<>>)
    /\ reqEmbeddings = <<>> /\ chunkScores = <<>> /\ sortedIds = <<>>
    /\ contextBlocks = <<>> /\ ragResponse = [kind |-> "none"] /\ ragRaised = FALSE

\* new Set<string>() where the function builds finalIds
FreshSet_Reused(old) == old
FreshSet(old) == {}

\* the body of getRagContext up to `await extractRequirementsFromJD(...)`:
\* the locals of the invocation are fresh
StartCall(jd, store, opts) ==
    /\ jdText' = jd
    /\ vectorStore' = store
    /\ options' = opts
    /\ finalIds' = FreshSet(finalIds) \cup FixedInclusion(store, opts)
    /\ fixedIds' = FixedInclusion(store, opts)
    /\ rpc' = "extracting"
    /\ requirements' = JsonArray(<<>>)
    /\ reqEmbeddings' = <<>> /\ chunkScores' = <<>> /\ sortedIds' = <<>>
    /\ contextBlocks' = <<>>
    /\ ragResponse' = [kind |-> "none"]
    /\ ragRaised' = FALSE

\* the body from the answer of the extraction up to
\* `await ai.models.embedContent(...)`
ExtractStep(resp) ==
    LET got == extractRequirementsFromJD(resp)
    IN  /\ ragResponse' = resp
        /\ IF LengthThrows(got)
           THEN /\ ragRaised' = TRUE
                /\ rpc' = "rejected"
                /\ requirements' = got
           ELSE /\ ragRaised' = FALSE
                /\ rpc' = "embedding"
                /\ requirements' =
                     IF LengthIsZero(got)
                     THEN JsonArray(<<Substring0(jdText, JD_FALLBACK_CHARS)>>)
                     ELSE got
        /\ UNCHANGED <<jdText, vectorStore, options, finalIds, fixedIds, reqEmbeddings,
                       chunkScores, sortedIds, contextBlocks>>

\* the body from the answer of the embedding service to the return, given
\* the score table and the order the two sorts leave
EmbedStep(resp, scores, sorted) ==
    LET ids == [k \in 1..Len(sorted) |-> sorted[k].id]
        final == SelectIds(finalIds, ids,
                           options.finalContextLimit + Cardinality(finalIds))
    IN  /\ ragResponse' = resp
        /\ reqEmbeddings' = ReqEmbeddingsOf(resp)
        /\ chunkScores' = scores
        /\ sortedIds' = ids
        /\ finalIds' = final
        /\ contextBlocks' = RenderContext(vectorStore, final)
        /\ rpc' = "done"
        /\ UNCHANGED <<jdText, vectorStore, options, fixedIds, requirements, ragRaised>>

\* getRagContext(jd, store, opts) up to `await extractRequirementsFromJD(...)`
GetRagContextCall ==
    /\ rpc = "idle"
    /\ \E jd \in JdTexts, store \in VectorStores, opts \in OptionSets :
          StartCall(jd, store, opts)
    /\ UNCHANGED <<indexVars, corpusVars, twiceVars, appVars>>

\* the extraction settles; step 2 up to `await ai.models.embedContent(...)`
ExtractSettle ==
    /\ rpc = "extracting"
    /\ \E resp \in GenResponses : ExtractStep(resp)
    /\ UNCHANGED <<indexVars, corpusVars, twiceVars, appVars>>

\* the embedding of the requirements settles; steps 3 to 7 and the return
EmbedSettle ==
    /\ rpc = "embedding"
    /\ \E resp \in EmbedResponses(Len(ContentsOf(requirements)), ReqVectors) :
          \E scores \in ScoreOutcomes(ReqEmbeddingsOf(resp), vectorStore,
                                      options.reqMatchCount, <<>>) :
             \E sorted \in SortOutcomes(scores) : EmbedStep(resp, scores, sorted)
    /\ UNCHANGED <<indexVars, corpusVars, twiceVars, appVars>>

-----------------------------------------------------------------------------
\* Two getRagContext calls with the same JD, store and options.  The
\* services are deterministic: in the second call they answer what they
\* answered in the first, and Array.prototype.sort, a function of its input,
\* leaves the order it left in the first call.

NoAnswer == [kind |-> "none"]

TwiceIdle ==
    /\ callNo = 0
    /\ stub = [gen |-> NoAnswer, emb |-> NoAnswer]
    /\ firstCall = [finished |-> FALSE]

\* the options of the two-call runs
TwiceOptionSets ==
    { o \in OptionSets : o.requirementCount = MaxReq
                         /\ o.includeSummary = o.includeEducation }

TwiceFirstCall ==
    /\ callNo = 0 /\ rpc = "idle"
    /\ \E jd \in JdTexts, store \in VectorStores, opts \in TwiceOptionSets :
          StartCall(jd, store, opts)
    /\ callNo' = 1
    /\ UNCHANGED <<stub, firstCall>>
    /\ UNCHANGED <<indexVars, corpusVars, appVars>>

\* the first call has returned or raised; the caller calls again
TwiceSecondCall ==
    /\ callNo = 1 /\ rpc \in {"done", "rejected"}
    /\ StartCall(jdText, vectorStore, options)
    /\ callNo' = 2
    /\ firstCall' = [finished |-> TRUE, raised |-> ragRaised, out |-> contextBlocks,
                      store |-> vectorStore, chunkScores |-> chunkScores,
                      sortedIds |-> sortedIds]
    /\ UNCHANGED stub
    /\ UNCHANGED <<indexVars, corpusVars, appVars>>

TwiceExtractSettle ==
    /\ callNo \in {1, 2} /\ rpc = "extracting"
    /\ \E resp \in (IF callNo = 1 THEN GenResponses ELSE {stub.gen}) :
          /\ ExtractStep(resp)
          /\ stub' = [stub EXCEPT !.gen = resp]
    /\ UNCHANGED <<callNo, firstCall>>
    /\ UNCHANGED <<indexVars, corpusVars, appVars>>

\* the orders a sort may leave: the one it left for this input in the first
\* call, if it is among them
SameAsBefore(outcomes, before) ==
    IF callNo = 2 /\ before \in outcomes THEN {before} ELSE outcomes

TwiceEmbedSettle ==
    /\ callNo \in {1, 2} /\ rpc = "embedding"
    /\ \E resp \in (IF callNo = 1
                     THEN EmbedResponses(Len(ContentsOf(requirements)), ReqVectors)
                     ELSE {stub.emb}) :
          /\ \E scores \in SameAsBefore(
                    ScoreOutcomes(ReqEmbeddingsOf(resp), vectorStore,
                                  options.reqMatchCount, <<>>),
                    IF callNo = 2 THEN firstCall.chunkScores ELSE <<>>) :
                \E sorted \in { o \in SortOutcomes(scores) :
                                   callNo = 2 =>
                                     \/ [k \in 1..Len(o) |-> o[k].id] = firstCall.sortedIds
                                     \/ \A q \in SortOutcomes(scores) :
                                           [k \in 1..Len(q) |-> q[k].id] # firstCall.sortedIds } :
                    EmbedStep(resp, scores, sorted)
          /\ stub' = [stub EXCEPT !.emb = resp]
    /\ UNCHANGED <<callNo, firstCall>>
    /\ UNCHANGED <<indexVars, corpusVars, appVars>>

-----------------------------------------------------------------------------
\* enrichItem and enrichAndEmbedCorpus.

PendingCall == [state |-> "pending", kind |-> "none", result |-> NullResult]

\* IssueBatch with the slice lost: a call for every remaining chunk
IssueBatch_Unsliced(c, i) == [j \in 1..(Len(c) - i) |-> PendingCall]

\* corpus.slice(i, i + BATCH_SIZE).map(item => enrichItem(item, onTokenUsage))
IssueBatch(c, i) == [j \in 1..Min(BATCH_SIZE, Len(c) - i) |-> PendingCall]

\* results.forEach(res => { if (res) enrichedItems.push(res) })
RECURSIVE PushResults(_, _)
PushResults(items, cs) ==
    IF cs = <<>> THEN items
    ELSE PushResults(IF cs[1].result.isNull THEN items
                     ELSE Append(items, cs[1].result.item), Tail(cs))

\* EnrichProgress with Math.min lost
EnrichProgress_NoMin(i) == <<i + BATCH_SIZE, Len(corpus) * 2>>

\* onProgress(Math.min(i + BATCH_SIZE, corpus.length), corpus.length * 2)
EnrichProgress(i) == <<Min(i + BATCH_SIZE, Len(corpus)), Len(corpus) * 2>>

\* onProgress(corpus.length + Math.min(i + EMBED_BATCH_SIZE, textsToEmbed.length),
\*            corpus.length * 2)
EmbedProgress(i, n) ==
    <<Len(corpus) + Min(i + EMBED_BATCH_SIZE, n), Len(corpus) * 2>>

\* the vector the embedding service returns for the text at list position p
VectorAt(p) == IF p % 2 = 1 THEN <<1, 0>> ELSE <<3, 4>>

WithValues(v) == [hasValues |-> TRUE, values |-> v]
WithoutValues == [hasValues |-> FALSE, values |-> <<>>]

\* the response that answers a batch of n texts starting at index i in full
FullResponse(i, n) ==
    [kind |-> "ok", embeddings |-> [j \in 1..n |-> WithValues(VectorAt(i + j))]]

\* the other responses: the call rejects, the embeddings field is missing, one
\* entry too few or too many, or the first or last entry comes without
\* values, with an empty list, or with a vector of another length
PartialResponses(i, n) ==
    { [kind |-> k, embeddings |-> <<>>] : k \in {"error", "noembeddings"} }
    \cup { [kind |-> "ok", embeddings |-> [j \in 1..(n - 1) |-> WithValues(VectorAt(i + j))]],
           [kind |-> "ok", embeddings |-> [j \in 1..(n + 1) |->
                                            IF j <= n THEN WithValues(VectorAt(i + j))
                                            ELSE WithValues(<<0, 1>>)]] }
    \cup { [kind |-> "ok", embeddings |-> [j \in 1..n |->
                                            IF j = q THEN e ELSE WithValues(VectorAt(i + j))]] :
             q \in {1, n}, e \in {WithoutValues, WithValues(<<>>), WithValues(<<1>>)} }

\* response.embeddings.forEach((emb, idx) => { if (emb.values)
\*     enrichedItems[i + idx].embedding = emb.values }): an entry with values
\* past the end of enrichedItems throws, which ends the loop
RECURSIVE ApplyEmbeddings(_, _, _, _)
ApplyEmbeddings(items, embs, i, idx) ==
    IF idx > Len(embs) THEN items
    ELSE IF ~embs[idx].hasValues THEN ApplyEmbeddings(items, embs, i, idx + 1)
    ELSE IF i + idx > Len(items) THEN items
    ELSE ApplyEmbeddings([items EXCEPT ![i + idx].embedding = Embedding(embs[idx].values)],
                         embs, i, idx + 1)

\* FilterEmbedded with the filter lost: every enriched item is returned
FilterEmbedded_KeepAll(items) == items

\* enrichedItems.filter(item => item.embedding !== undefined)
RECURSIVE FilterEmbedded(_)
FilterEmbedded(items) ==
    IF items = <<>> THEN <<>>
    ELSE (IF items[1].embedding.set THEN <<items[1]>> ELSE <<>>)
         \o FilterEmbedded(Tail(items))

IndexIdle ==
    /\ ipc = "idle" /\ corpus = <<>> /\ enrichedItems = <<>> /\ loopI = 0
    /\ calls = <<>> /\ embedLog = <<>> /\ progress = <<>> /\ indexResult = <<>>
    /\ indexRaised = FALSE /\ faults = 0

\* enrichAndEmbedCorpus(corpus, onProgress, onTokenUsage) up to the first
\* await: the enrichment calls of the first batch are issued; with an empty
\* corpus neither loop runs and the call returns
EnrichAndEmbedCall ==
    /\ ipc = "idle"
    /\ \E n \in CorpusLengths :
          /\ corpus' = Corpus(n)
          /\ IF n = 0
             THEN /\ ipc' = "done"
                  /\ calls' = <<>>
             ELSE /\ ipc' = "enriching"
                  /\ calls' = IssueBatch(Corpus(n), 0)
    /\ loopI' = 0
    /\ enrichedItems' = <<>>
    /\ indexResult' = <<>>
    /\ UNCHANGED <<embedLog, progress, indexRaised, faults>>
    /\ UNCHANGED <<ragVars, corpusVars, twiceVars, appVars>>

\* one enrichItem promise of the running batch settles
EnrichItemSettle ==
    /\ ipc = "enriching"
    /\ \E j \in 1..Len(calls) :
          /\ calls[j].state = "pending"
          /\ \E kind \in EnrichResponseKinds, id \in IdDraws(loopI + j) :
                LET fault == kind # "ok" \/ id # loopI + j
                IN  /\ fault => faults < MaxFaults
                    /\ faults' = IF fault THEN faults + 1 ELSE faults
                    /\ calls' = [calls EXCEPT ![j] =
                          [state |-> "settled", kind |-> kind,
                           result |-> enrichItem(corpus[loopI + j], loopI + j, kind, id)]]
    /\ UNCHANGED <<ipc, corpus, enrichedItems, loopI, embedLog, progress,
                   indexResult, indexRaised>>
    /\ UNCHANGED <<ragVars, corpusVars, twiceVars, appVars>>

\* Promise.all resolves: the results are pushed, onProgress is called, and
\* the next batch is issued; after the last batch the embedding phase starts
\* with its first call, or, with nothing to embed, the call returns
EnrichBatchJoin ==
    /\ ipc = "enriching"
    /\ \A j \in 1..Len(calls) : calls[j].state = "settled"
    /\ LET items == PushResults(enrichedItems, calls)
           next == loopI + BATCH_SIZE
       IN  /\ enrichedItems' = items
           /\ progress' = Append(progress, EnrichProgress(loopI))
           /\ IF next < Len(corpus)
              THEN /\ loopI' = next
                   /\ calls' = IssueBatch(corpus, next)
                   /\ ipc' = "enriching"
                   /\ indexResult' = indexResult
              ELSE /\ loopI' = 0
                   /\ calls' = <<>>
                   /\ IF Len(items) > 0
                      THEN ipc' = "embedding" /\ indexResult' = indexResult
                      ELSE ipc' = "done" /\ indexResult' = FilterEmbedded(items)
    /\ UNCHANGED <<corpus, embedLog, indexRaised, faults>>
    /\ UNCHANGED <<ragVars, corpusVars, twiceVars, appVars>>

\* TryEmbedBatch without the catch block: a rejected call escapes
TryEmbedBatch_NoCatch(items, resp, i) ==
    [items |-> IF resp.kind = "ok" THEN ApplyEmbeddings(items, resp.embeddings, i, 1)
               ELSE items,
     escaped |-> resp.kind = "error"]

\* the try block around one embedContent call and its catch block: the items
\* afterwards, and whether an exception escaped (the catch block logs and
\* swallows every one)
TryEmbedBatch(items, resp, i) ==
    [items |-> IF resp.kind = "ok" THEN ApplyEmbeddings(items, resp.embeddings, i, 1)
               ELSE items,
     escaped |-> FALSE]

\* the embedContent call of the running batch settles: the vectors are
\* matched to the items, onProgress is called, and the next batch is sent;
\* after the last batch the call returns the items that hold an embedding
EmbedBatchSettle ==
    /\ ipc = "embedding"
    /\ LET n == Min(EMBED_BATCH_SIZE, Len(enrichedItems) - loopI)
       IN  \E resp \in {FullResponse(loopI, n)} \cup PartialResponses(loopI, n) :
              LET fault == resp # FullResponse(loopI, n)
                  out == TryEmbedBatch(enrichedItems, resp, loopI)
                  next == loopI + EMBED_BATCH_SIZE
              IN  /\ fault => faults < MaxFaults
                  /\ faults' = IF fault THEN faults + 1 ELSE faults
                  /\ embedLog' = Append(embedLog, [at |-> loopI, response |-> resp])
                  /\ enrichedItems' = out.items
                  /\ IF out.escaped
                     THEN /\ ipc' = "rejected"
                          /\ indexRaised' = TRUE
                          /\ UNCHANGED <<loopI, progress, indexResult>>
                     ELSE /\ indexRaised' = indexRaised
                          /\ progress' = Append(progress,
                               EmbedProgress(loopI, Len(enrichedItems)))
                          /\ IF next < Len(enrichedItems)
                             THEN /\ loopI' = next
                                  /\ ipc' = "embedding"
                                  /\ indexResult' = indexResult
                             ELSE /\ loopI' = 0
                                  /\ ipc' = "done"
                                  /\ indexResult' = FilterEmbedded(out.items)
    /\ UNCHANGED <<corpus, calls>>
    /\ UNCHANGED <<ragVars, corpusVars, twiceVars, appVars>>

-----------------------------------------------------------------------------
\* The App component.

CopilotActions == {"COVER_LETTER", "INTERVIEW_PREP", "TAILOR_RESUME"}

\* totalTokenCount of a response; 0 stands for a response without usage metadata
UsageReports == {0, MAX_SESSION_TOKENS \div 2}

\* what a generation call settles with: a service error, a response without
\* text, or a response with text that parses
GenAnswers ==
    {[kind |-> "error", tokens |-> 0]}
        \cup [kind : {"notext", "ok"}, tokens : UsageReports]

\* the requirement extraction may also answer the JSON text null
ExtractAnswers == GenAnswers \cup [kind : {"null"}, tokens : UsageReports]

\* what the call sites of the App hand over in the onTokenUsage position
FunctionHandler == "function"
StringHandler == "string"

\* reportUsage: the count handed to the handler, or the TypeError of calling
\* a handler that is not a function
reportUsage(answer, handler) ==
    IF answer.tokens # 0
    THEN IF handler = FunctionHandler
         THEN [thrown |-> FALSE, reported |-> answer.tokens]
         ELSE [thrown |-> TRUE, reported |-> 0]
    ELSE [thrown |-> FALSE, reported |-> 0]

\* what an awaited service function settles with
Raised == [raised |-> TRUE, text |-> FALSE]
ReturnedText(hasText) == [raised |-> FALSE, text |-> hasText]

parseResumeWithGemini(answer) ==
    IF answer.kind = "error" THEN Raised
    ELSE IF reportUsage(answer, FunctionHandler).thrown THEN Raised
    ELSE IF answer.kind = "notext" THEN Raised
    ELSE ReturnedText(TRUE)

draftCoverLetter(answer, handler) ==
    IF answer.kind = "error" THEN Raised
    ELSE IF reportUsage(answer, handler).thrown THEN Raised
    ELSE ReturnedText(answer.kind = "ok")

sendMessage(answer, handler) ==
    IF answer.kind = "error" THEN Raised
    ELSE IF reportUsage(answer, handler).thrown THEN Raised
    ELSE ReturnedText(answer.kind = "ok")

tailorResume(answer, handler) ==
    IF answer.kind = "error" THEN Raised
    ELSE IF reportUsage(answer, handler).thrown THEN Raised
    ELSE IF answer.kind = "notext" THEN Raised
    ELSE ReturnedText(TRUE)

\* the count a settled call adds to the counter through its handler
Reported(answer, handler) ==
    IF answer.kind = "error" THEN 0 ELSE reportUsage(answer, handler).reported

handleTokenUsage_Subtract(prev, newTokens) == prev - newTokens

\* handleTokenUsage: the updater's next value
handleTokenUsage(prev, newTokens) == prev + newTokens

\* the counter after a call that reported n tokens (no call of the handler for 0)
CounterAfter(n) == IF n # 0 THEN handleTokenUsage(tokenUsage, n) ELSE tokenUsage

LimitReached == "Session token limit reached. Please reload to start a fresh session."

\* the values error can end with when a handler calls handleTokenUsage(n) and
\* sets error to byHandler ("keep" when it leaves error alone): the updater of
\* setTokenUsage, which sets the limit message, runs at the call or at the
\* next render
ErrorsAfter(n, byHandler) ==
    LET atLimit == n # 0 /\ CounterAfter(n) >= MAX_SESSION_TOKENS
        kept == IF byHandler = "keep" THEN error ELSE byHandler
    IN  IF atLimit
        THEN IF byHandler = "keep" THEN {LimitReached} ELSE {LimitReached, byHandler}
        ELSE {kept}

\* the record of a generation call started with the counter at counter
Started(kind, counter) ==
    IF counter >= MAX_SESSION_TOKENS THEN startedAtCeiling \cup {kind}
    ELSE startedAtCeiling

NoRun == [pc |-> "none", batch |-> 0]
InFlight(u) == indexRuns[u].pc \in {"enriching", "embedding"}

AppIdle ==
    /\ mode = "UPLOAD"
    /\ parsedResume = 0
    /\ tokenUsage = 0
    /\ appVectorStore = [of |-> 0, length |-> 0]
    /\ isIndexing = FALSE
    /\ isLoading = FALSE
    /\ isChatLoading = FALSE
    /\ jobDescription = FALSE
    /\ activeTab = "COVER_LETTER"
    /\ copilotRef = 0
    /\ chatHistory = <<>>
    /\ tailoredResumeData = 0
    /\ error = "null"
    /\ uploadTasks = <<>>
    /\ indexRuns = [u \in 1..MaxUploads |-> NoRun]
    /\ sessions = <<>>
    /\ sends = <<>>
    /\ epoch = 0
    /\ retrievals = {}
    /\ startedAtCeiling = {}

\* handleFileUpload with a file of a supported type, up to reader.readAsDataURL
handleFileUpload ==
    /\ mode = "UPLOAD"
    /\ Len(uploadTasks) < MaxUploads
    /\ isLoading' = TRUE
    /\ error' = "null"
    /\ tokenUsage' = 0
    /\ uploadTasks' = Append(uploadTasks, [pc |-> "reading", tokenUsage |-> tokenUsage])
    /\ UNCHANGED <<mode, parsedResume, appVectorStore, isIndexing, isChatLoading,
                   jobDescription, activeTab, copilotRef, chatHistory,
                   tailoredResumeData, indexRuns, sessions, sends, epoch,
                   retrievals, startedAtCeiling>>
    /\ UNCHANGED <<ragVars, indexVars, corpusVars, twiceVars>>

\* reader.onload up to the await of parseResumeWithGemini
ReaderOnLoad ==
    \E u \in 1..Len(uploadTasks) :
        /\ uploadTasks[u].pc = "reading"
        /\ uploadTasks' = [uploadTasks EXCEPT ![u].pc = "parsing"]
        /\ UNCHANGED <<mode, parsedResume, tokenUsage, appVectorStore, isIndexing,
                       isLoading, isChatLoading, jobDescription, activeTab,
                       copilotRef, chatHistory, tailoredResumeData, error,
                       indexRuns, sessions, sends, epoch, retrievals,
                       startedAtCeiling>>
        /\ UNCHANGED <<ragVars, indexVars, corpusVars, twiceVars>>

\* buildKnowledgeBase(parsed) of upload u up to its first await, called with
\* the counter standing at counter: "skipped" by the guard on the tokenUsage
\* of the handler's closure, "failed" when generateRichCorpus throws,
\* "started" when the first enrichment batch is issued
buildKnowledgeBase(u, corpusThrows) ==
    IF uploadTasks[u].tokenUsage >= MAX_SESSION_TOKENS THEN "skipped"
    ELSE IF corpusThrows THEN "failed"
    ELSE "started"

\* the rest of reader.onload: parseResumeWithGemini settles
ParseSettle ==
    \E u \in 1..Len(uploadTasks), answer \in GenAnswers, corpusThrows \in BOOLEAN :
        /\ uploadTasks[u].pc = "parsing"
        /\ uploadTasks' = [uploadTasks EXCEPT ![u] = [pc |-> "done", tokenUsage |-> 0]]
        /\ LET n == Reported(answer, FunctionHandler)
               built == buildKnowledgeBase(u, corpusThrows)
           IN  /\ tokenUsage' = CounterAfter(n)
               /\ isLoading' = FALSE
               /\ IF parseResumeWithGemini(answer).raised
                  THEN /\ corpusThrows = FALSE
                       /\ error' \in ErrorsAfter(n, "Parsing failed")
                       /\ UNCHANGED <<parsedResume, mode, isIndexing, indexRuns,
                                      startedAtCeiling>>
                  ELSE /\ parsedResume' = u
                       /\ mode' = "DASHBOARD"
                       /\ built = "skipped" => corpusThrows = FALSE
                       /\ isIndexing' = IF built = "started" THEN TRUE
                                        ELSE IF built = "failed" THEN FALSE
                                        ELSE isIndexing
                       /\ error' \in ErrorsAfter(n, IF built = "failed"
                                                    THEN "Failed to build knowledge base"
                                                    ELSE "keep")
                       /\ indexRuns' = IF built = "started"
                                       THEN [indexRuns EXCEPT ![u] = [pc |-> "enriching", batch |-> 0]]
                                       ELSE indexRuns
                       /\ startedAtCeiling' = IF built = "started"
                                              THEN Started("enrichment batch", CounterAfter(n))
                                              ELSE startedAtCeiling
        /\ UNCHANGED <<appVectorStore, isChatLoading, jobDescription, activeTab,
                       copilotRef, chatHistory, tailoredResumeData, sessions,
                       sends, epoch, retrievals>>
        /\ UNCHANGED <<ragVars, indexVars, corpusVars, twiceVars>>

\* an enrichment batch of the run of upload u settles with n tokens reported
\* by its items; the next batch, or the embedding call, is issued
EnrichBatchSettle ==
    \E u \in 1..MaxUploads, n \in UsageReports :
        /\ indexRuns[u].pc = "enriching"
        /\ tokenUsage' = CounterAfter(n)
        /\ error' \in ErrorsAfter(n, "keep")
        /\ IF indexRuns[u].batch + 1 < MaxBatches
           THEN /\ indexRuns' = [indexRuns EXCEPT ![u].batch = @ + 1]
                /\ startedAtCeiling' = Started("enrichment batch", CounterAfter(n))
           ELSE /\ indexRuns' = [indexRuns EXCEPT ![u] = [pc |-> "embedding", batch |-> @.batch + 1]]
                /\ UNCHANGED startedAtCeiling
        /\ UNCHANGED <<mode, parsedResume, appVectorStore, isIndexing, isLoading,
                       isChatLoading, jobDescription, activeTab, copilotRef,
                       chatHistory, tailoredResumeData, uploadTasks, sessions,
                       sends, epoch, retrievals>>
        /\ UNCHANGED <<ragVars, indexVars, corpusVars, twiceVars>>

\* enrichAndEmbedCorpus of upload u resolves with length items: the rest of
\* buildKnowledgeBase
IndexingSettle ==
    \E u \in 1..MaxUploads, length \in 0..1 :
        /\ indexRuns[u].pc = "embedding"
        /\ indexRuns' = [indexRuns EXCEPT ![u].pc = "done"]
        /\ appVectorStore' = [of |-> u, length |-> length]
        /\ isIndexing' = FALSE
        /\ UNCHANGED <<mode, parsedResume, tokenUsage, isLoading, isChatLoading,
                       jobDescription, activeTab, copilotRef, chatHistory,
                       tailoredResumeData, error, uploadTasks, sessions, sends,
                       epoch, retrievals, startedAtCeiling>>
        /\ UNCHANGED <<ragVars, indexVars, corpusVars, twiceVars>>

\* the dashboard takes input when the loading overlay is not over it
DashboardOpen == mode = "DASHBOARD" /\ ~isLoading

\* the onChange of the job description textarea, with a text that is not empty
ChangeJobDescription ==
    \E text \in {TRUE} :
        /\ DashboardOpen
        /\ jobDescription' = text
        /\ error' = "null"
        /\ UNCHANGED <<mode, parsedResume, tokenUsage, appVectorStore, isIndexing,
                       isLoading, isChatLoading, activeTab, copilotRef,
                       chatHistory, tailoredResumeData, uploadTasks, indexRuns,
                       sessions, sends, epoch, retrievals, startedAtCeiling>>
        /\ UNCHANGED <<ragVars, indexVars, corpusVars, twiceVars>>

\* the onClick of Change Resume
ChangeResume ==
    /\ DashboardOpen
    /\ Len(uploadTasks) < MaxUploads
    /\ mode' = "UPLOAD"
    /\ UNCHANGED <<parsedResume, tokenUsage, appVectorStore, isIndexing, isLoading,
                   isChatLoading, jobDescription, activeTab, copilotRef,
                   chatHistory, tailoredResumeData, error, uploadTasks, indexRuns,
                   sessions, sends, epoch, retrievals, startedAtCeiling>>
    /\ UNCHANGED <<ragVars, indexVars, corpusVars, twiceVars>>

handleTabChange ==
    \E tab \in CopilotActions :
        /\ DashboardOpen
        /\ epoch < MaxTabChanges
        /\ epoch' = epoch + 1
        /\ activeTab' = tab
        /\ chatHistory' = <<>>
        /\ copilotRef' = 0
        /\ tailoredResumeData' = 0
        /\ UNCHANGED <<mode, parsedResume, tokenUsage, appVectorStore, isIndexing,
                       isLoading, isChatLoading, jobDescription, error,
                       uploadTasks, indexRuns, sessions, sends, retrievals,
                       startedAtCeiling>>
        /\ UNCHANGED <<ragVars, indexVars, corpusVars, twiceVars>>

\* the path initCopilotSession(action) takes through its guards
SessionBranch(action) ==
    IF tokenUsage >= MAX_SESSION_TOKENS THEN "Session token limit exceeded"
    ELSE IF ~jobDescription THEN "Please enter a job description first"
    ELSE IF parsedResume = 0 THEN "Resume data missing"
    ELSE IF action = "TAILOR_RESUME" THEN "tailor"
    ELSE IF appVectorStore.length = 0 /\ ~isIndexing THEN "Resume data missing"
    ELSE IF isIndexing THEN "Still indexing resume"
    ELSE "chat"

NewSession(action, pc) ==
    [action |-> action, pc |-> pc, epoch |-> epoch, allOk |-> TRUE,
     allCounted |-> TRUE, unusable |-> FALSE, failed |-> FALSE]

\* the onClick of the start button, up to the first await
initCopilotSession ==
    /\ DashboardOpen
    /\ chatHistory = <<>> /\ tailoredResumeData = 0
    /\ ~isChatLoading /\ jobDescription
    /\ Len(sessions) < MaxSessions
    /\ LET action == activeTab
           branch == SessionBranch(action)
       IN  CASE branch = "tailor" ->
                  /\ isLoading' = TRUE
                  /\ sessions' = Append(sessions, NewSession(action, "tailor"))
                  /\ startedAtCeiling' = Started("tailoring", tokenUsage)
                  /\ UNCHANGED <<error, isChatLoading, chatHistory, retrievals>>
             [] branch = "chat" ->
                  /\ error' = "null"
                  /\ isChatLoading' = TRUE
                  /\ chatHistory' = <<>>
                  /\ sessions' = Append(sessions, NewSession(action, "extract"))
                  /\ retrievals' = retrievals \cup
                         {[store |-> appVectorStore.of, resume |-> parsedResume,
                           running |-> \E u \in 1..MaxUploads : InFlight(u)]}
                  /\ startedAtCeiling' = Started("requirement extraction", tokenUsage)
                  /\ UNCHANGED isLoading
             [] OTHER ->
                  /\ error' = branch
                  /\ UNCHANGED <<isLoading, isChatLoading, chatHistory, sessions,
                                 retrievals, startedAtCeiling>>
    /\ UNCHANGED <<mode, parsedResume, tokenUsage, appVectorStore, isIndexing,
                   jobDescription, activeTab, copilotRef, tailoredResumeData,
                   uploadTasks, indexRuns, sends, epoch>>
    /\ UNCHANGED <<ragVars, indexVars, corpusVars, twiceVars>>

\* session s after a call settled with answer, n tokens of it counted
Settled(s, answer, n) ==
    [sessions[s] EXCEPT !.allOk = @ /\ answer.kind = "ok" /\ answer.tokens > 0,
                        !.allCounted = @ /\ n = answer.tokens]

\* getRagContext of session s: the requirement extraction settles
SessionExtractSettle ==
    \E s \in 1..Len(sessions), answer \in ExtractAnswers :
        /\ sessions[s].pc = "extract"
        /\ LET n == Reported(answer, FunctionHandler)
           IN  /\ tokenUsage' = CounterAfter(n)
               /\ IF answer.kind = "null"
                  THEN /\ sessions' = [sessions EXCEPT ![s] =
                              [Settled(s, answer, n) EXCEPT !.pc = "done", !.failed = TRUE]]
                       /\ error' \in ErrorsAfter(n, "Failed to initialize Copilot session")
                       /\ isChatLoading' = FALSE
                  ELSE /\ sessions' = [sessions EXCEPT ![s] =
                              [Settled(s, answer, n) EXCEPT !.pc = "embed"]]
                       /\ error' \in ErrorsAfter(n, "keep")
                       /\ UNCHANGED isChatLoading
        /\ UNCHANGED <<mode, parsedResume, appVectorStore, isIndexing, isLoading,
                       jobDescription, activeTab, copilotRef, chatHistory,
                       tailoredResumeData, uploadTasks, indexRuns, sends, epoch,
                       retrievals, startedAtCeiling>>
        /\ UNCHANGED <<ragVars, indexVars, corpusVars, twiceVars>>

Message(role, hasText, e) == [role |-> role, text |-> hasText, epoch |-> e]

\* getRagContext of session s resolves: the copilot is made and the initial
\* action is triggered
SessionRagSettle ==
    \E s \in 1..Len(sessions) :
        /\ sessions[s].pc = "embed"
        /\ copilotRef' = s
        /\ IF sessions[s].action = "COVER_LETTER"
           THEN /\ sessions' = [sessions EXCEPT ![s].pc = "draft"]
                /\ startedAtCeiling' = Started("cover letter", tokenUsage)
                /\ UNCHANGED <<chatHistory, isChatLoading>>
           ELSE /\ sessions' = [sessions EXCEPT ![s].pc = "done"]
                /\ chatHistory' = <<Message("model", TRUE, sessions[s].epoch)>>
                /\ isChatLoading' = FALSE
                /\ UNCHANGED startedAtCeiling
        /\ UNCHANGED <<mode, parsedResume, tokenUsage, appVectorStore, isIndexing,
                       isLoading, jobDescription, activeTab, tailoredResumeData,
                       error, uploadTasks, indexRuns, sends, epoch, retrievals>>
        /\ UNCHANGED <<ragVars, indexVars, corpusVars, twiceVars>>

\* session s with its artifact call settled with answer as result
Finished(s, answer, n, result) ==
    [Settled(s, answer, n) EXCEPT !.pc = "done",
                                  !.unusable = answer.kind # "ok",
                                  !.failed = result.raised]

\* copilot.draftCoverLetter() of session s settles
DraftSettle ==
    \E s \in 1..Len(sessions), answer \in GenAnswers :
        /\ sessions[s].pc = "draft"
        /\ LET n == Reported(answer, StringHandler)
               result == draftCoverLetter(answer, StringHandler)
           IN  /\ tokenUsage' = CounterAfter(n)
               /\ sessions' = [sessions EXCEPT ![s] = Finished(s, answer, n, result)]
               /\ IF result.raised
                  THEN /\ error' \in ErrorsAfter(n, "Failed to initialize Copilot session")
                       /\ UNCHANGED chatHistory
                  ELSE /\ error' \in ErrorsAfter(n, "keep")
                       /\ chatHistory' = <<Message("model", result.text, sessions[s].epoch)>>
        /\ isChatLoading' = FALSE
        /\ UNCHANGED <<mode, parsedResume, appVectorStore, isIndexing, isLoading,
                       jobDescription, activeTab, copilotRef, tailoredResumeData,
                       uploadTasks, indexRuns, sends, epoch, retrievals,
                       startedAtCeiling>>
        /\ UNCHANGED <<ragVars, indexVars, corpusVars, twiceVars>>

\* tailorResume of session s settles
TailorSettle ==
    \E s \in 1..Len(sessions), answer \in GenAnswers :
        /\ sessions[s].pc = "tailor"
        /\ LET n == Reported(answer, StringHandler)
               result == tailorResume(answer, StringHandler)
           IN  /\ tokenUsage' = CounterAfter(n)
               /\ sessions' = [sessions EXCEPT ![s] = Finished(s, answer, n, result)]
               /\ IF result.raised
                  THEN /\ error' \in ErrorsAfter(n, "Failed to tailor resume")
                       /\ UNCHANGED tailoredResumeData
                  ELSE /\ error' \in ErrorsAfter(n, "keep")
                       /\ tailoredResumeData' = s
        /\ isLoading' = FALSE
        /\ UNCHANGED <<mode, parsedResume, appVectorStore, isIndexing, isChatLoading,
                       jobDescription, activeTab, copilotRef, chatHistory,
                       uploadTasks, indexRuns, sends, epoch, retrievals,
                       startedAtCeiling>>
        /\ UNCHANGED <<ragVars, indexVars, corpusVars, twiceVars>>

\* the onSend of the chat input, up to the await
handleSendMessage ==
    /\ DashboardOpen
    /\ ~(activeTab = "TAILOR_RESUME")
    /\ ~isChatLoading /\ chatHistory # <<>>
    /\ Len(sends) < MaxSends
    /\ IF tokenUsage >= MAX_SESSION_TOKENS
       THEN /\ error' = "Token limit exceeded"
            /\ UNCHANGED <<chatHistory, isChatLoading, sends, startedAtCeiling>>
       ELSE IF copilotRef = 0
       THEN UNCHANGED <<error, chatHistory, isChatLoading, sends, startedAtCeiling>>
       ELSE /\ chatHistory' = Append(chatHistory, Message("user", TRUE, epoch))
            /\ isChatLoading' = TRUE
            /\ sends' = Append(sends, [pc |-> "send", epoch |-> epoch])
            /\ startedAtCeiling' = Started("chat message", tokenUsage)
            /\ UNCHANGED error
    /\ UNCHANGED <<mode, parsedResume, tokenUsage, appVectorStore, isIndexing,
                   isLoading, jobDescription, activeTab, copilotRef,
                   tailoredResumeData, uploadTasks, indexRuns, sessions, epoch,
                   retrievals>>
    /\ UNCHANGED <<ragVars, indexVars, corpusVars, twiceVars>>

\* copilotRef.current.sendMessage(text) of send k settles
SendSettle ==
    \E k \in 1..Len(sends), answer \in GenAnswers :
        /\ sends[k].pc = "send"
        /\ sends' = [sends EXCEPT ![k].pc = "done"]
        /\ LET n == Reported(answer, StringHandler)
               result == sendMessage(answer, StringHandler)
           IN  /\ tokenUsage' = CounterAfter(n)
               /\ IF result.raised
                  THEN /\ error' \in ErrorsAfter(n, "Failed to send message")
                       /\ UNCHANGED chatHistory
                  ELSE /\ error' \in ErrorsAfter(n, "keep")
                       /\ chatHistory' = Append(chatHistory,
                                                Message("model", result.text, sends[k].epoch))
        /\ isChatLoading' = FALSE
        /\ UNCHANGED <<mode, parsedResume, appVectorStore, isIndexing, isLoading,
                       jobDescription, activeTab, copilotRef, tailoredResumeData,
                       uploadTasks, indexRuns, sessions, epoch, retrievals,
                       startedAtCeiling>>
        /\ UNCHANGED <<ragVars, indexVars, corpusVars, twiceVars>>

-----------------------------------------------------------------------------
\* generateRichCorpus.

\* a collection of the document: an array, or a field that is missing
Coll(items) == [present |-> TRUE, items |-> items]
Absent == [present |-> FALSE, items |-> <<>>]

\* the lists nested in an entry: missing, or 0..MaxBullets elements
NestedLists == {Absent} \cup { Coll([i \in 1..n |-> i]) : n \in 0..MaxBullets }

WorkExperience(bullets) ==
    [company_name |-> "Acme", role_title |-> "Engineer", bullet_points |-> bullets]
Project(tech, bullets) ==
    [project_name |-> "P", technologies_used |-> tech, bullet_points |-> bullets]
Education(achievements) ==
    [degree_obtained |-> "BSc", achievements |-> achievements]
SkillGroup(items) == [category_name |-> "Languages", items |-> items]

ProjectWithStack(l) == Project(Coll(<<"ts">>), l)
ProjectWithoutStack(l) == Project(Absent, l)

\* the documents of the model
Resumes ==
    [professional_summary : {UndefinedLabel, "", "summary"},
     work_experience :
         {Absent, Coll(<<>>)}
         \cup { Coll(<<WorkExperience(l)>>) : l \in NestedLists }
         \cup { Coll(<<WorkExperience(Coll(<<1>>)), WorkExperience(l)>>) : l \in NestedLists },
     projects : {Absent, Coll(<<>>)}
                \cup { Coll(<<ProjectWithStack(l)>>) : l \in NestedLists }
                \cup { Coll(<<ProjectWithoutStack(l)>>) : l \in {Coll(<<>>), Coll(<<1>>)} },
     education : {Absent, Coll(<<>>)} \cup { Coll(<<Education(l)>>) : l \in NestedLists },
     skills : {Absent, Coll(<<>>)}
              \cup { Coll(<<SkillGroup(l)>>) : l \in {Absent, Coll(<<>>), Coll(<<1>>)} },
     certifications : {Absent, Coll(<<>>), Coll(<<1>>)}]

EmptyResume ==
    [professional_summary |-> "", work_experience |-> Coll(<<>>), projects |-> Coll(<<>>),
     education |-> Coll(<<>>), skills |-> Coll(<<>>), certifications |-> Coll(<<>>)]

\* the outcome of a stretch of the function body: the chunks pushed, or a throw
Pushed(chunks) == [raised |-> FALSE, chunks |-> chunks]
Thrown == [raised |-> TRUE, chunks |-> <<>>]
Then(a, b) ==
    IF a.raised \/ b.raised THEN Thrown ELSE Pushed(a.chunks \o b.chunks)

Chunk(text, type, subtype) ==
    [text |-> text, metadata |-> [type |-> type, subtype |-> subtype]]

\* for (const x of list) corpusChunks.push({text, metadata}) in the k-th entry
\* of a section: iterating a missing list throws
ForOf(list, label, k, type, subtype) ==
    IF ~list.present THEN Thrown
    ELSE Pushed([i \in 1..Len(list.items) |->
                    Chunk(<<label, k, list.items[i]>>, type, subtype)])

WorkChunks(job, k) ==
    ForOf(job.bullet_points, "ACHIEVEMENT", k, "work_experience", "")

\* proj.technologies_used.join(", ") throws when the list is missing
ProjectChunks(proj, k) ==
    IF ~proj.technologies_used.present THEN Thrown
    ELSE ForOf(proj.bullet_points, "DETAIL", k, "project", "")

EducationChunks(edu, k) ==
    Then(Pushed(<<Chunk(<<"SUMMARY", k>>, "education", "degree")>>),
         ForOf(edu.achievements, "ACHIEVEMENT", k, "education", "achievement"))

\* skillGroup.items.join(", ") throws when the list is missing
SkillChunks(skillGroup, k) ==
    IF ~skillGroup.items.present THEN Thrown
    ELSE Pushed(<<Chunk(<<"LIST", k>>, "skill_group", "")>>)

CertificationChunks(cert, k) == Pushed(<<Chunk(<<"TITLE", cert>>, "certification", "")>>)

\* the body of the loop over the entries of a section
EntryChunks(section, entry, k) ==
    CASE section = "work_experience" -> WorkChunks(entry, k)
      [] section = "projects" -> ProjectChunks(entry, k)
      [] section = "education" -> EducationChunks(entry, k)
      [] section = "skills" -> SkillChunks(entry, k)
      [] section = "certifications" -> CertificationChunks(entry, k)

\* for (const entry of entries) { ... }: the bodies one after another
RECURSIVE ForEachEntry(_, _, _)
ForEachEntry(section, entries, k) ==
    IF k > Len(entries) THEN Pushed(<<>>)
    ELSE Then(EntryChunks(section, entries[k], k), ForEachEntry(section, entries, k + 1))

\* if (resumeJson.section) { for (const entry of resumeJson.section) ... }
Section(section, coll) ==
    IF ~coll.present THEN Pushed(<<>>) ELSE ForEachEntry(section, coll.items, 1)

\* if (resumeJson.professional_summary): undefined and "" are falsy
SummaryChunks(doc) ==
    IF doc.professional_summary \in {UndefinedLabel, ""} THEN Pushed(<<>>)
    ELSE Pushed(<<Chunk(<<"TEXT", doc.professional_summary>>, "summary", "")>>)

\* generateRichCorpus(resumeJson): the chunks returned, or a throw
generateRichCorpus(doc) ==
    Then(Section("work_experience", doc.work_experience),
    Then(Section("projects", doc.projects),
    Then(Section("education", doc.education),
    Then(Section("skills", doc.skills),
    Then(Section("certifications", doc.certifications),
         SummaryChunks(doc))))))

CorpusIdle ==
    /\ gpc = "idle" /\ resumeJson = EmptyResume
    /\ corpusChunks = <<>> /\ corpusRaised = FALSE

\* the call generateRichCorpus(resumeJson)
GenerateRichCorpusCall ==
    /\ gpc = "idle"
    /\ LET out == generateRichCorpus(resumeJson)
       IN  /\ corpusRaised' = out.raised
           /\ corpusChunks' = out.chunks
           /\ gpc' = IF out.raised THEN "rejected" ELSE "done"
    /\ UNCHANGED resumeJson
    /\ UNCHANGED <<ragVars, indexVars, twiceVars, appVars>>

CorpusInit ==
    /\ gpc = "idle" /\ resumeJson \in Resumes
    /\ corpusChunks = <<>> /\ corpusRaised = FALSE
    /\ RagIdle /\ IndexIdle /\ TwiceIdle /\ AppIdle
CorpusNext == GenerateRichCorpusCall
SpecCorpus == CorpusInit /\ [][CorpusNext]_vars

IndexInit == IndexIdle /\ RagIdle /\ CorpusIdle /\ TwiceIdle /\ AppIdle
IndexNext == EnrichAndEmbedCall \/ EnrichItemSettle \/ EnrichBatchJoin \/ EmbedBatchSettle
SpecIndex == IndexInit /\ [][IndexNext]_vars

RagInit == RagIdle /\ IndexIdle /\ CorpusIdle /\ TwiceIdle /\ AppIdle
RagNext == GetRagContextCall \/ ExtractSettle \/ EmbedSettle
SpecRag == RagInit /\ [][RagNext]_vars

TwiceInit == RagIdle /\ IndexIdle /\ CorpusIdle /\ TwiceIdle /\ AppIdle
TwiceNext ==
    TwiceFirstCall \/ TwiceExtractSettle \/ TwiceEmbedSettle \/ TwiceSecondCall
SpecRagTwice == TwiceInit /\ [][TwiceNext]_vars

AppInit == AppIdle /\ RagIdle /\ IndexIdle /\ CorpusIdle /\ TwiceIdle
AppNext ==
    \/ handleFileUpload
    \/ ReaderOnLoad
    \/ ParseSettle
    \/ EnrichBatchSettle
    \/ IndexingSettle
    \/ ChangeJobDescription
    \/ ChangeResume
    \/ handleTabChange
    \/ initCopilotSession
    \/ SessionExtractSettle
    \/ SessionRagSettle
    \/ DraftSettle
    \/ TailorSettle
    \/ handleSendMessage
    \/ SendSettle
SpecApp == AppInit /\ [][AppNext]_vars

-----------------------------------------------------------------------------
\* Claims about the App component.

\* C21 as stated: the session token counter never decreases, whatever the
\* step (upload, indexing, retrieval, chat).
C21_CounterNeverDecreases == [][tokenUsage' >= tokenUsage]_vars

\* C21: the session token counter changes only by the addition of a reported
\* count, which is never negative, or by the reset to 0 of an accepted upload.
C21_CounterGrowsOrResets ==
    [][\/ tokenUsage' - tokenUsage \in UsageReports
       \/ /\ tokenUsage' = 0
          /\ Len(uploadTasks') = Len(uploadTasks) + 1]_vars

\* an upload was accepted with tokens counted, and the counter is below them
C21_Witness ==
    \E u \in 1..Len(uploadTasks) :
        /\ uploadTasks[u].pc # "done"
        /\ uploadTasks[u].tokenUsage > 0
        /\ tokenUsage < uploadTasks[u].tokenUsage

\* C22: a cover letter or tailoring session whose generation call yielded no
\* usable response (a service error, or no text) ended with the call raising.
C22_UnusableResponseRaises ==
    \A s \in 1..Len(sessions) :
        (sessions[s].pc = "done" /\ sessions[s].unusable) => sessions[s].failed

\* C24: every retrieval was started with the index of the resume that was the
\* parsed resume at that moment.
C24_RetrievalUsesCurrentIndex ==
    \A r \in retrievals : r.store = r.resume

\* C25: isIndexing is set whenever an indexing run has not completed, and no
\* retrieval was started with a run in flight.
C25_IndexingFlagWhileRunInFlight ==
    /\ (\E u \in 1..MaxUploads : InFlight(u)) => isIndexing
    /\ \A r \in retrievals : ~r.running

\* C26: no text-generation call (enrichment batch, requirement extraction,
\* cover letter, chat message, tailoring) was started with the counter at or
\* above MAX_SESSION_TOKENS.
C26_NoGenerationAtCeiling == startedAtCeiling = {}

\* C29: a Tailor Resume or Cover Letter session whose generation calls all
\* returned text with a positive token count ended without the failure path,
\* with its artifact stored and every reported count added to the counter.
C29_ArtifactStored ==
    \A s \in 1..Len(sessions) :
        (/\ sessions[s].pc = "done"
         /\ sessions[s].action \in {"TAILOR_RESUME", "COVER_LETTER"}
         /\ sessions[s].allOk)
            => (~sessions[s].failed /\ sessions[s].allCounted)

\* C30: the chat holds only messages of requests made since the last tab
\* change, and copilotRef is null or the copilot of a session started since.
C30_NoStaleChatAfterTabChange ==
    /\ \A i \in 1..Len(chatHistory) : chatHistory[i].epoch = epoch
    /\ copilotRef # 0 => sessions[copilotRef].epoch = epoch

-----------------------------------------------------------------------------
\* Claims about getRagContext (specification SpecRag).

Returned == rpc = "done"

\* the store positions whose block is in the returned context
Rendered == { k \in 1..Len(vectorStore) :
                \E b \in 1..Len(contextBlocks) :
                    contextBlocks[b] = RenderBlock(vectorStore[k]) }

\* the store positions the include flags select
FixedItems == { k \in 1..Len(vectorStore) :
    \/ options.includeSummary /\ vectorStore[k].metadata.type = "summary"
    \/ options.includeEducation /\ vectorStore[k].metadata.type = "education" }

DistinctIds(store) ==
    \A j, k \in 1..Len(store) : j # k => store[j].id # store[k].id

\* C1: the number of rendered blocks is at most finalContextLimit plus the
\* number of fixed-inclusion items, for every store and every service outcome.
C1_BlockCountBounded ==
    Returned => Len(contextBlocks) <= options.finalContextLimit + Cardinality(FixedItems)

\* C1, what the code does keep: the bound holds whenever the ids of the
\* store are pairwise distinct.
C1_BoundedWhenIdsDistinct ==
    (Returned /\ DistinctIds(vectorStore)) =>
        Len(contextBlocks) <= options.finalContextLimit + Cardinality(FixedItems)

\* C2: no block is rendered for an item whose embedding is unset.
C2_NoUnembeddedRendered ==
    Returned => \A k \in Rendered : vectorStore[k].embedding.set

\* C3: with includeSummary (includeEducation) every item of type summary
\* (education) is rendered, whatever its similarity to the requirements and
\* whatever the services returned.
C3_FixedAlwaysRendered ==
    Returned => FixedItems \subseteq Rendered

\* C3 witness: a returned context, ranked against at least one requirement
\* vector with finalContextLimit 0, whose store is a normally enriched
\* summary item and a fallback education item without embedding; both are
\* rendered.
C3_Witness ==
    /\ Returned
    /\ reqEmbeddings # <<>>
    /\ options.includeSummary /\ options.includeEducation
    /\ options.finalContextLimit = 0
    /\ Len(vectorStore) = 2
    /\ vectorStore[1].metadata.type = "summary"
    /\ vectorStore[1].category # "unknown"
    /\ vectorStore[2].metadata.type = "education"
    /\ vectorStore[2].category = "unknown"
    /\ ~vectorStore[2].embedding.set
    /\ Rendered = {1, 2}

\* position k is among the reqMatchCount highest similarities for reqVec:
\* fewer than reqMatchCount positions come before it in descending order
\* (earlier position first among equals); a NaN is no similarity.
InTopList(k, reqVec) ==
    LET sc == ScoresOf(reqVec, vectorStore)
    IN  /\ ~IsNaN(sc[k].score)
        /\ Cardinality({ j \in 1..Len(vectorStore) :
                           /\ ~IsNaN(sc[j].score)
                           /\ \/ sc[j].score[1] > sc[k].score[1]
                              \/ sc[j].score[1] = sc[k].score[1] /\ j < k })
             < options.reqMatchCount

\* the sum of the similarities of the items with this id over the
\* requirement vectors r..n in whose top list they are
RECURSIVE ExpectedScore(_, _)
ExpectedScore(id, r) ==
    IF r > Len(reqEmbeddings) THEN 0
    ELSE LET sc == ScoresOf(reqEmbeddings[r], vectorStore)
             mine == { k \in 1..Len(vectorStore) :
                         vectorStore[k].id = id /\ InTopList(k, reqEmbeddings[r]) }
             f == [k \in 1..Len(vectorStore) |->
                      IF k \in mine THEN sc[k].score[1] ELSE 0]
         IN  SumTo(f, Len(vectorStore)) + ExpectedScore(id, r + 1)

InSomeTopList(id) ==
    \E r \in 1..Len(reqEmbeddings), k \in 1..Len(vectorStore) :
        vectorStore[k].id = id /\ InTopList(k, reqEmbeddings[r])

\* C4: an id has a score entry exactly when it is in some requirement's top
\* list, and the entry is the sum of its similarities over those requirements.
C4_ScoreIsSumOverTopLists ==
    Returned =>
        /\ \A e \in 1..Len(chunkScores) :
              /\ InSomeTopList(chunkScores[e].id)
              /\ chunkScores[e].score = Num(ExpectedScore(chunkScores[e].id, 1))
        /\ \A k \in 1..Len(vectorStore) :
              InSomeTopList(vectorStore[k].id) => MapHas(chunkScores, vectorStore[k].id)

\* C4, what the code does keep: the same, when every requirement has a vector.
C4_SumWhenAllVectorsPresent ==
    (Returned /\ \A r \in 1..Len(reqEmbeddings) : reqEmbeddings[r] # <<>>) =>
        /\ \A e \in 1..Len(chunkScores) :
              /\ InSomeTopList(chunkScores[e].id)
              /\ chunkScores[e].score = Num(ExpectedScore(chunkScores[e].id, 1))
        /\ \A k \in 1..Len(vectorStore) :
              InSomeTopList(vectorStore[k].id) => MapHas(chunkScores, vectorStore[k].id)

\* the extraction yielded no usable requirement list
ExtractionFailed(resp) ==
    \/ resp.kind \in {"error", "notext", "emptytext", "unparseable"}
    \/ resp.kind = "json" /\ (resp.parsed.t # "array" \/ resp.parsed.items = <<>>)

\* C10: after any failed or empty extraction the call has not raised and goes
\* on with the single requirement jdText.substring(0, 1000).
C10_ExtractionFallback ==
    (rpc \in {"embedding", "rejected"} /\ ExtractionFailed(ragResponse)) =>
        /\ ~ragRaised
        /\ requirements = JsonArray(<<Substring0(jdText, JD_FALLBACK_CHARS)>>)

\* C10, what the code does keep: the fallback after a rejected call, a missing
\* or unparseable text, and an empty array.
C10_FallbackOnCaughtFailures ==
    (/\ rpc \in {"embedding", "rejected"}
     /\ \/ ragResponse.kind \in {"error", "notext", "emptytext", "unparseable"}
        \/ ragResponse.kind = "json" /\ ragResponse.parsed = JsonArray(<<>>)) =>
        /\ ~ragRaised
        /\ requirements = JsonArray(<<Substring0(jdText, JD_FALLBACK_CHARS)>>)

RECURSIVE FixedBlocks(_)
FixedBlocks(k) ==
    IF k > Len(vectorStore) THEN <<>>
    ELSE (IF k \in FixedItems THEN <<RenderBlock(vectorStore[k])>> ELSE <<>>)
         \o FixedBlocks(k + 1)

\* C12: after a rejected embedding call the call returns, without raising
\* and with no requirement vector, exactly the blocks of the fixed items.
C12_EmbedFailureFixedOnly ==
    (Returned /\ ragResponse.kind = "error") =>
        /\ ~ragRaised
        /\ reqEmbeddings = <<>>
        /\ contextBlocks = FixedBlocks(1)

\* C12, what the code does keep: the same, for stores with distinct ids.
C12_FixedOnlyWhenIdsDistinct ==
    (Returned /\ ragResponse.kind = "error" /\ DistinctIds(vectorStore)) =>
        /\ ~ragRaised
        /\ reqEmbeddings = <<>>
        /\ contextBlocks = FixedBlocks(1)

\* C13: the requirements that are embedded and ranked are at most
\* requirementCount strings.
C13_AtMostRequirementCount ==
    rpc \in {"embedding", "done"} =>
        (requirements.t = "array" =>
            Len(requirements.items) <= options.requirementCount)

\* the store positions whose id is in the final set
Selected == { k \in 1..Len(vectorStore) : vectorStore[k].id \in finalIds }

\* the block the assembly step is to render for store position k
ExpectedBlock(k) ==
    LET kw == vectorStore[k].keywords
        sk == vectorStore[k].skills_implied
    IN  [category |-> ToUpperCase(vectorStore[k].category),
         content |-> vectorStore[k].content,
         tags |-> [i \in 1..Min(8, Len(kw) + Len(sk)) |->
                     IF i <= Len(kw) THEN kw[i] ELSE sk[i - Len(kw)]]]

ScoredIds == { chunkScores[e].id : e \in 1..Len(chunkScores) }
RankedIds == ScoredIds \ fixedIds

\* the ids selected by score
SelectedByScore == finalIds \ fixedIds

\* s >= t on accumulated scores; no comparison with NaN is true
ScoreAtLeast(s, t) ==
    /\ ~IsNaN(MapGet(chunkScores, s)) /\ ~IsNaN(MapGet(chunkScores, t))
    /\ MapGet(chunkScores, s)[1] >= MapGet(chunkScores, t)[1]

\* the selected ids are the min(finalContextLimit, number of ranked ids)
\* ranked ids of highest accumulated score
TopRankedSelected ==
    /\ SelectedByScore \subseteq RankedIds
    /\ Cardinality(SelectedByScore) =
          Min(options.finalContextLimit, Cardinality(RankedIds))
    /\ \A s \in SelectedByScore, t \in RankedIds \ SelectedByScore : ScoreAtLeast(s, t)

\* C23: the ids selected by score are the first min(finalContextLimit, number
\* of ranked ids) non-fixed ids in descending accumulated-score order, fixed
\* ids taking none of the budget; with finalContextLimit 0 the context is
\* exactly the blocks of the fixed items.
C23_SelectionByScore ==
    Returned =>
        /\ TopRankedSelected
        /\ options.finalContextLimit = 0 => contextBlocks = FixedBlocks(1)

\* C23, what the code does keep: the same, when every requirement has a
\* vector and the ids of the store are pairwise distinct.
C23_SelectionWhenVectorsPresent ==
    (/\ Returned
     /\ \A r \in 1..Len(reqEmbeddings) : reqEmbeddings[r] # <<>>
     /\ DistinctIds(vectorStore)) =>
        /\ TopRankedSelected
        /\ options.finalContextLimit = 0 => contextBlocks = FixedBlocks(1)

\* the requirement vectors that came with values
RECURSIVE WithVector(_)
WithVector(vecs) ==
    IF vecs = <<>> THEN <<>>
    ELSE (IF vecs[1] # <<>> THEN <<vecs[1]>> ELSE <<>>) \o WithVector(Tail(vecs))

\* C28: a requirement without a vector contributes no hits: the score
\* table is the one the requirements with a vector give, and every id
\* selected by score is in it.
C28_NoVectorNoHits ==
    Returned =>
        /\ chunkScores \in ScoreOutcomes(WithVector(reqEmbeddings), vectorStore,
                                          options.reqMatchCount, <<>>)
        /\ \A e \in 1..Len(chunkScores) : ~IsNaN(chunkScores[e].score)

-----------------------------------------------------------------------------
\* Claims about enrichItem and enrichAndEmbedCorpus (specification SpecIndex).

EnrichmentOver == ipc \in {"embedding", "done"}
IndexReturned == ipc = "done"

\* C5: the enrichment phase yields one enriched item per chunk, in chunk
\* order, whatever each enrichment call answered.
C5_OneItemPerChunk ==
    EnrichmentOver =>
        /\ Len(enrichedItems) = Len(corpus)
        /\ \A k \in 1..Len(enrichedItems) : enrichedItems[k].raw_source = corpus[k].text

\* C5, what the code does keep: the items are in chunk order, at most one per
\* chunk.
C5_AtMostOnePerChunkInOrder ==
    EnrichmentOver =>
        /\ Len(enrichedItems) <= Len(corpus)
        /\ \A j, k \in 1..Len(enrichedItems) :
              j < k => enrichedItems[j].raw_source[2] < enrichedItems[k].raw_source[2]

\* the responses the claim counts as a service failure: a rejected call, a
\* malformed response (no text, empty text, null, an object without the
\* fields), a parse error
ServiceFailureKinds == {"error", "notext", "emptytext", "unparseable", "null", "nofields"}

IsFallbackOf(result, chunk) ==
    /\ ~result.isNull
    /\ result.item = FallbackItem(chunk, result.item.id)

\* C6: enrichItem answers every service failure with the fallback item of
\* its chunk.
C6_FallbackOnFailure ==
    \A j \in 1..Len(calls) :
        (calls[j].state = "settled" /\ calls[j].kind \in ServiceFailureKinds) =>
            IsFallbackOf(calls[j].result, corpus[loopI + j])

\* C6, what the code does keep: the fallback item after a rejected call, an
\* unparseable text and a text that parses to null.
C6_FallbackOnCaughtFailure ==
    \A j \in 1..Len(calls) :
        (calls[j].state = "settled" /\ calls[j].kind \in {"error", "unparseable", "null"}) =>
            IsFallbackOf(calls[j].result, corpus[loopI + j])

\* some response received so far carries a vector for list position p
GivenVector(p) ==
    \E b \in 1..Len(embedLog) :
        LET r == embedLog[b].response
            j == p - embedLog[b].at
        IN  r.kind = "ok" /\ j >= 1 /\ j <= Len(r.embeddings) /\ r.embeddings[j].hasValues

\* the items at the positions p..Len(enrichedItems) that were given a vector
RECURSIVE ItemsGivenVector(_)
ItemsGivenVector(p) ==
    IF p > Len(enrichedItems) THEN <<>>
    ELSE (IF GivenVector(p) THEN <<enrichedItems[p]>> ELSE <<>>) \o ItemsGivenVector(p + 1)

\* C7: the returned list holds exactly the enriched items that were given a
\* vector in the embedding phase, in chunk order, each with its embedding set.
C7_StoreIsEmbeddedItems ==
    IndexReturned =>
        /\ indexResult = ItemsGivenVector(1)
        /\ \A k \in 1..Len(indexResult) : indexResult[k].embedding.set

\* C7 witness: a returned store that kept some items and dropped others.
C7_Witness ==
    /\ IndexReturned
    /\ Len(indexResult) > 0
    /\ Len(indexResult) < Len(enrichedItems)
    /\ \E p \in 1..Len(enrichedItems) : ~enrichedItems[p].embedding.set

\* the response to the batch that list position p belongs to, if received
BatchOf(p) == ((p - 1) \div EMBED_BATCH_SIZE) + 1

\* C8: every item holds exactly what the response to its own batch carries at
\* its batch-relative position: that vector, or no embedding when the batch
\* is unanswered, failed, or has no vector at the position.
C8_VectorsMatchedByPosition ==
    \A p \in 1..Len(enrichedItems) :
        LET b == BatchOf(p)
        IN  IF b <= Len(embedLog)
            THEN LET r == embedLog[b].response
                     j == p - embedLog[b].at
                 IN  enrichedItems[p].embedding =
                        IF r.kind = "ok" /\ j <= Len(r.embeddings) /\ r.embeddings[j].hasValues
                        THEN Embedding(r.embeddings[j].values)
                        ELSE NoEmbedding
            ELSE enrichedItems[p].embedding = NoEmbedding

\* C8, what the code does keep: the same for every response that has no more
\* entries than its batch has texts.
C8_MatchedWhenNotLonger ==
    (\A b \in 1..Len(embedLog) :
        Len(embedLog[b].response.embeddings)
            <= Min(EMBED_BATCH_SIZE, Len(enrichedItems) - embedLog[b].at))
    => C8_VectorsMatchedByPosition

BatchCount(n) == (n + EMBED_BATCH_SIZE - 1) \div EMBED_BATCH_SIZE

BatchFailed(b) == embedLog[b].response.kind = "error"

\* C9: a failed embedding call does not make enrichAndEmbedCorpus reject and
\* does not stop the loop: every batch is sent, the items given a vector are
\* in the returned store, and, when every other batch is answered in full,
\* the items without an embedding are those of failed batches.
C9_BatchFailureIsolated ==
    /\ ~indexRaised /\ ipc # "rejected"
    /\ ipc = "embedding" => Len(embedLog) = loopI \div EMBED_BATCH_SIZE
    /\ IndexReturned =>
          /\ Len(embedLog) = BatchCount(Len(enrichedItems))
          /\ \A p \in 1..Len(enrichedItems) :
                GivenVector(p) =>
                    \E k \in 1..Len(indexResult) :
                        indexResult[k].raw_source = enrichedItems[p].raw_source
          /\ (\A b \in 1..Len(embedLog) :
                 BatchFailed(b) \/ embedLog[b].response =
                    FullResponse(embedLog[b].at,
                                 Min(EMBED_BATCH_SIZE, Len(enrichedItems) - embedLog[b].at)))
             => \A p \in 1..Len(enrichedItems) :
                   ~enrichedItems[p].embedding.set => BatchFailed(BatchOf(p))

\* C9 witness: the first of two batches failed, the second was answered, and
\* the returned store holds the items of the second.
C9_Witness ==
    /\ IndexReturned
    /\ Len(embedLog) = 2
    /\ BatchFailed(1)
    /\ embedLog[2].response.kind = "ok"
    /\ Len(indexResult) > 0
    /\ \A p \in 1..EMBED_BATCH_SIZE : ~enrichedItems[p].embedding.set

\* the enrichment calls that are outstanding
Outstanding == { j \in 1..Len(calls) : calls[j].state = "pending" }

\* C14: at most BATCH_SIZE enrichment calls are outstanding at any moment, and
\* the calls of the next batch are issued only in a step taken when every
\* call of the running batch has settled.
C14_BatchesOneAfterAnother ==
    /\ [](Cardinality(Outstanding) <= BATCH_SIZE)
    /\ [][(ipc = "enriching" /\ Outstanding' # {} /\ Outstanding' # Outstanding
            /\ ~(Outstanding' \subseteq Outstanding))
           => Outstanding = {}]_vars

\* C14 witness: the second batch is running with BATCH_SIZE calls
\* outstanding, after the first batch was joined.
C14_Witness ==
    /\ ipc = "enriching"
    /\ loopI = BATCH_SIZE
    /\ Cardinality(Outstanding) = BATCH_SIZE
    /\ Len(progress) = 1

\* the enrichment batches that were joined so far
EnrichBatchesDone ==
    CASE ipc = "idle" -> 0
      [] ipc = "enriching" -> loopI \div BATCH_SIZE
      [] OTHER -> (Len(corpus) + BATCH_SIZE - 1) \div BATCH_SIZE

\* C15: onProgress was called once per joined enrichment batch and once per
\* answered or failed embedding batch, always with total 2 * corpus length;
\* the current values increase strictly and never exceed the total.
C15_ProgressPerBatch ==
    /\ Len(progress) = EnrichBatchesDone + Len(embedLog)
    /\ \A k \in 1..Len(progress) :
          /\ progress[k][2] = 2 * Len(corpus)
          /\ progress[k][1] <= progress[k][2]
    /\ \A k \in 1..(Len(progress) - 1) : progress[k][1] < progress[k + 1][1]

\* C15 witness: a run over MaxCorpus chunks has returned; one of its two
\* embedding calls was rejected.
C15_Witness ==
    /\ IndexReturned
    /\ Len(corpus) = MaxCorpus
    /\ Len(embedLog) = 2
    /\ \E b \in 1..Len(embedLog) : embedLog[b].response.kind = "error"
    /\ Len(progress) = EnrichBatchesDone + 2

\* C16: no two enriched items of one run have the same id.
C16_IdsUnique ==
    DistinctIds(enrichedItems)

\* C17: all embeddings of the returned store have the same length.
C17_SameDimensionality ==
    IndexReturned =>
        \A j, k \in 1..Len(indexResult) :
            Len(indexResult[j].embedding.values) = Len(indexResult[k].embedding.values)

\* C27: when a run over a non-empty corpus has returned, the last current
\* value reported to onProgress is the total, 2 * corpus length.
C27_LastProgressIsTotal ==
    (IndexReturned /\ Len(corpus) > 0) =>
        /\ progress # <<>>
        /\ progress[Len(progress)][1] = 2 * Len(corpus)

\* C27, what the code does keep: the same, when enrichItem returned an item
\* for every chunk.
C27_TotalWhenNoItemDropped ==
    (IndexReturned /\ Len(corpus) > 0 /\ Len(enrichedItems) = Len(corpus)) =>
        /\ progress # <<>>
        /\ progress[Len(progress)][1] = 2 * Len(corpus)

-----------------------------------------------------------------------------
\* Claims about generateRichCorpus (specification SpecCorpus).

CountIn(coll) == IF coll.present THEN Len(coll.items) ELSE 0

\* the elements of the list nested under the given field, over all entries
NestedCount(coll, field) ==
    LET f == [k \in 1..CountIn(coll) |-> CountIn(coll.items[k][field])]
    IN  SumTo(f, CountIn(coll))

ChunksOf(type, subtype) ==
    Cardinality({ k \in 1..Len(corpusChunks) :
                    /\ corpusChunks[k].metadata.type = type
                    /\ corpusChunks[k].metadata.subtype = subtype })

\* the chunk counts the document calls for
CountsAsSpecified ==
    /\ ChunksOf("work_experience", "") = NestedCount(resumeJson.work_experience, "bullet_points")
    /\ ChunksOf("project", "") = NestedCount(resumeJson.projects, "bullet_points")
    /\ ChunksOf("education", "degree") = CountIn(resumeJson.education)
    /\ ChunksOf("education", "achievement") =
          NestedCount(resumeJson.education, "achievements")
    /\ ChunksOf("skill_group", "") = CountIn(resumeJson.skills)
    /\ ChunksOf("certification", "") = CountIn(resumeJson.certifications)
    /\ ChunksOf("summary", "") =
          (IF resumeJson.professional_summary \in {UndefinedLabel, ""} THEN 0 ELSE 1)
    /\ Len(corpusChunks) =
            NestedCount(resumeJson.work_experience, "bullet_points")
          + NestedCount(resumeJson.projects, "bullet_points")
          + CountIn(resumeJson.education)
          + NestedCount(resumeJson.education, "achievements")
          + CountIn(resumeJson.skills) + CountIn(resumeJson.certifications)
          + (IF resumeJson.professional_summary \in {UndefinedLabel, ""} THEN 0 ELSE 1)

\* C20: for every document the call returns, without an error, one chunk per
\* work bullet, project bullet, education entry, education achievement,
\* skill group and certification, and one for a non-empty summary; missing
\* and empty collections, top-level or nested, give no chunk.
C20_OneChunkPerFact ==
    gpc # "idle" => (~corpusRaised /\ CountsAsSpecified)

\* every entry of the document carries its nested lists
NestedListsPresent ==
    /\ \A k \in 1..CountIn(resumeJson.work_experience) :
          resumeJson.work_experience.items[k].bullet_points.present
    /\ \A k \in 1..CountIn(resumeJson.projects) :
          /\ resumeJson.projects.items[k].bullet_points.present
          /\ resumeJson.projects.items[k].technologies_used.present
    /\ \A k \in 1..CountIn(resumeJson.education) :
          resumeJson.education.items[k].achievements.present
    /\ \A k \in 1..CountIn(resumeJson.skills) :
          resumeJson.skills.items[k].items.present

\* C20, what the code does keep: the counts, for documents whose entries
\* carry their nested lists (empty or not).
C20_CountsWhenNestedListsPresent ==
    (gpc # "idle" /\ NestedListsPresent) => (~corpusRaised /\ CountsAsSpecified)

=============================================================================
